---- MODULE Spec2Model ----
(***************************************************************************)
(* Edge rendering strategies of aves.visualization.networks.edges:         *)
(* PlainEdges, WeightedEdges, CommunityGradient and ODGradient.  One       *)
(* strategy instance bound to one network; prepare_data and render are the *)
(* operations.  Numbers that the code holds as floats are modelled as      *)
(* exact rationals <<numerator, denominator>>.                             *)
(***************************************************************************)
EXTENDS Integers, Sequences, FiniteSets

\* ------------------------------------------------------------------ bounds
MaxEdges == 3
MaxWeights == 4
MaxK == 3
MaxNPoints == 3
MaxCalls == 2

\* ------------------------------------------------------------- python values
\* Python values carry their type, as type(...) tests in the code see it.
None == [type |-> "NoneType"]
NdArray(a) == [type |-> "ndarray", a |-> a]
PyList(a) == [type |-> "list", a |-> a]
PyStr(s) == [type |-> "str", s |-> s]
\* An attribute the instance does not have yet (reading it raises).
Absent == [type |-> "absent"]
\* The code pandas gives a value outside every bin (NaN once returned).
NaN == 0 - 1

\* --------------------------------------------------------------- rationals
Abs(n) == IF n < 0 THEN 0 - n ELSE n

RECURSIVE GCD(_, _)
GCD(a, b) == IF b = 0 THEN a ELSE GCD(b, a % b)

Rat(n, d) ==
    LET g == GCD(Abs(n), d)
    IN  <<n \div g, d \div g>>

RatInt(n) == <<n, 1>>
RatAdd(a, b) == Rat(a[1] * b[2] + b[1] * a[2], a[2] * b[2])
RatSub(a, b) == Rat(a[1] * b[2] - b[1] * a[2], a[2] * b[2])
RatMul(a, b) == Rat(a[1] * b[1], a[2] * b[2])
RatLess(a, b) == a[1] * b[2] < b[1] * a[2]
RatLeq(a, b) == a[1] * b[2] <= b[1] * a[2]

\* np.linspace(start, stop, num, endpoint=True): num = 1 gives [start].
Linspace(start, stop, num) ==
    [j \in 1..num |->
        IF num = 1 THEN start
        ELSE RatAdd(start, RatMul(Rat(j - 1, num - 1), RatSub(stop, start)))]

\* --------------------------------------------------------------- sequences
Range(s) == {s[j] : j \in DOMAIN s}
SetMin(S) == CHOOSE x \in S : \A y \in S : x <= y
SetMax(S) == CHOOSE x \in S : \A y \in S : y <= x
SeqsUpTo(S, n) == UNION {[1..m -> S] : m \in 0..n}
Reversed(s) == [j \in 1..Len(s) |-> s[Len(s) + 1 - j]]

RECURSIVE SortedSeq(_)
SortedSeq(S) ==
    IF S = {} THEN <<>> ELSE <<SetMin(S)>> \o SortedSeq(S \ {SetMin(S)})

\* ---------------------------------------------------------------- pandas.cut
\* bins.searchsorted(x, side="left"): how many bin edges lie strictly below x.
Searchsorted(edges, x) == Cardinality({j \in DOMAIN edges : RatLess(edges[j], x)})

\* Variant: the first edge is left at the minimum.
CutEdgesUnadjusted(x, nbins) ==
    LET mn == SetMin(Range(x))
        mx == SetMax(Range(x))
        lo == IF mn # 0 THEN Rat(1000 * mn - Abs(mn), 1000) ELSE Rat(0 - 1, 1000)
        hi == IF mx # 0 THEN Rat(1000 * mx + Abs(mx), 1000) ELSE Rat(1, 1000)
    IN  IF mn = mx
        THEN Linspace(lo, hi, nbins + 1)
        ELSE Linspace(RatInt(mn), RatInt(mx), nbins + 1)

\* Variant: the bins span [0, max] instead of [min, max].
CutEdgesFromZero(x, nbins) ==
    LET mx == SetMax(Range(x))
        even == Linspace(RatInt(0), RatInt(mx), nbins + 1)
    IN  [j \in 1..(nbins + 1) |->
            IF j = 1 THEN RatSub(even[1], Rat(Abs(mx) + 1, 1000)) ELSE even[j]]

\* The k+1 bin edges pd.cut derives for an integer number of bins (right=True):
\* equal-width over [min, max] with the first edge lowered by 0.1% of the
\* range; a constant array has its range widened by 0.1% of |value| (by 0.001
\* around zero) on both sides instead.
CutEdges(x, nbins) ==
    LET mn == SetMin(Range(x))
        mx == SetMax(Range(x))
        lo == IF mn # 0 THEN Rat(1000 * mn - Abs(mn), 1000) ELSE Rat(0 - 1, 1000)
        hi == IF mx # 0 THEN Rat(1000 * mx + Abs(mx), 1000) ELSE Rat(1, 1000)
        even == Linspace(RatInt(mn), RatInt(mx), nbins + 1)
        adj == Rat(mx - mn, 1000)
    IN  IF mn = mx
        THEN Linspace(lo, hi, nbins + 1)
        ELSE [j \in 1..(nbins + 1) |->
                IF j = 1 THEN RatSub(even[1], adj) ELSE even[j]]

\* The integer code of one value: its right-closed interval, NaN outside all.
CutCode(edges, v) ==
    LET ids == Searchsorted(edges, RatInt(v))
    IN  IF ids = Len(edges) \/ ids = 0 THEN NaN ELSE ids - 1

\* pd.cut(x, nbins, labels=False, retbins=True): fails on None and on an empty
\* array, otherwise returns the codes and the bin edges.
PdCut(x, nbins) ==
    IF x = None THEN [ok |-> FALSE, groups |-> None, bins |-> None]
    ELSE IF Len(x.a) = 0 THEN [ok |-> FALSE, groups |-> None, bins |-> None]
    ELSE LET edges == CutEdges(x.a, nbins)
         IN  [ok |-> TRUE,
              groups |-> NdArray([e \in 1..Len(x.a) |-> CutCode(edges, x.a[e])]),
              bins |-> NdArray(edges)]

\* ------------------------------------------------------------------ network
Nodes == 0..1
NodePos(n) == <<RatInt(10 * n), RatInt(0)>>
Shapes == {"list2", "ndarray2", "ndarray3"}

\* One element of network.edge_data: endpoint indices, endpoint coordinates
\* and the geometry (a list or an array of points).
MakeEdge(s, t, shape) ==
    [index_pair |-> <<s, t>>,
     source |-> NodePos(s),
     target |-> NodePos(t),
     points |-> IF shape = "list2" THEN PyList(<<NodePos(s), NodePos(t)>>)
                ELSE IF shape = "ndarray2" THEN NdArray(<<NodePos(s), NodePos(t)>>)
                ELSE NdArray(<<NodePos(s), <<RatInt(5 * (s + t)), RatInt(5)>>,
                               NodePos(t)>>)]

PropNames == {"weight", "betweenness"}

MakeNetwork(edges, props, central) ==
    [edge_data |-> edges,
     edge_properties |-> props,
     centrality |-> central,
     estimated |-> FALSE]

\* Network.estimate_betweenness(): stores the edge betweenness of the graph
\* as the edge property "betweenness".
EstimateBetweenness(net) ==
    [net EXCEPT
        !.edge_properties =
            [p \in DOMAIN net.edge_properties \cup {"betweenness"} |->
                IF p = "betweenness" THEN net.centrality
                ELSE net.edge_properties[p]],
        !.estimated = TRUE]

\* ------------------------------------------------- ColoredCurveCollection
NewCurveCollection == [curves |-> <<>>, source |-> None, target |-> None]
AddCurve(coll, points, value) ==
    [coll EXCEPT !.curves = Append(@, [points |-> points, value |-> value])]
SetColors(coll, src, tgt) == [coll EXCEPT !.source = src, !.target = tgt]
\* What ColoredCurveCollection.render puts on the axes.
RenderCurves(coll) ==
    [segments |-> [j \in 1..Len(coll.curves) |-> coll.curves[j].points],
     source |-> coll.source,
     target |-> coll.target]

\* A Python dict keeps insertion order: a sequence of (key, value) entries.
DictKeys(d) == {d[j].key : j \in DOMAIN d}
DictGet(d, key) == d[CHOOSE j \in DOMAIN d : d[j].key = key].value
\* defaultdict(ColoredCurveCollection)[key]: a missing key is inserted.
DefaultDictTouch(d, key) ==
    IF key \in DictKeys(d) THEN d
    ELSE Append(d, [key |-> key, value |-> NewCurveCollection])

\* ------------------------------------------------------------ the strategies
VARIABLES
    strategy,          \* which class the instance is
    network,           \* self.network
    k,                 \* WeightedEdges.k
    weights,           \* WeightedEdges.weights
    node_communities,  \* CommunityGradient.node_communities
    community_ids,     \* CommunityGradient.community_ids
    n_points,          \* ODGradient.n_points
    lines,             \* PlainEdges.lines, WeightedEdges.lines
    bins,              \* WeightedEdges.bins
    line_groups,       \* WeightedEdges.line_groups
    community_links,   \* CommunityGradient.community_links
    colored_curves,    \* ODGradient.colored_curves
    op,                \* the last call made on the instance
    raised,            \* what the last call raised ("none": it returned)
    calls,             \* prepare_data calls that returned
    ax,                \* collections the last call added to the axes
    results            \* what the last call returned

vars == <<strategy, network, k, weights, node_communities, community_ids,
          n_points, lines, bins, line_groups, community_links, colored_curves,
          op, raised, calls, ax, results>>

params == <<strategy, k, weights, node_communities, community_ids, n_points>>

\* self.data: EdgeStrategy.__init__ hands network.edge_data to the base class.
data == network.edge_data

\* lines = []; for edge in self.data: lines.append(edge.points); np.array(lines)
CollectLines(edges) == NdArray([e \in 1..Len(edges) |-> edges[e].points.a])

\* -------------------------------------------------------------- PlainEdges
LineCollection(segments, color) ==
    [segments |-> IF segments = None THEN <<>> ELSE segments.a, color |-> color]

PlainColors == {"#abacab", "red"}

PlainPrepareData ==
    /\ strategy = "plain"
    /\ calls < MaxCalls
    /\ lines' = CollectLines(data)
    /\ op' = "prepare_data"
    /\ raised' = "none"
    /\ calls' = calls + 1
    /\ ax' = <<>>
    /\ results' = None
    /\ UNCHANGED <<params, network, bins, line_groups, community_links,
                   colored_curves>>

PlainRender ==
    /\ strategy = "plain"
    /\ \E color \in PlainColors :
        \E collection \in {LineCollection(lines, color)} :
            /\ ax' = <<collection>>
            /\ results' = collection
    /\ op' = "render"
    /\ raised' = "none"
    /\ UNCHANGED <<params, network, lines, bins, line_groups, community_links,
                   colored_curves, calls>>

\* ----------------------------------------------------------- WeightedEdges
\* Lines 192-201: a str names an edge property; a missing "betweenness" is
\* computed first, any other missing name raises.
\* Variant: no fallback, every missing name raises.
ResolveWeightsNoFallback(w, net) ==
    IF w.type = "str"
    THEN IF w.s \notin DOMAIN net.edge_properties
         THEN [raised |-> "InvalidWeightsReference", network |-> net, weights |-> w]
         ELSE [raised |-> "none",
               network |-> net,
               weights |-> NdArray(net.edge_properties[w.s])]
    ELSE [raised |-> "none", network |-> net, weights |-> w]

ResolveWeights(w, net) ==
    IF w.type = "str"
    THEN IF w.s \notin DOMAIN net.edge_properties
         THEN IF w.s = "betweenness"
              THEN LET computed == EstimateBetweenness(net)
                   IN  [raised |-> "none",
                        network |-> computed,
                        weights |-> NdArray(computed.edge_properties[w.s])]
              ELSE [raised |-> "InvalidWeightsReference",
                    network |-> net,
                    weights |-> w]
         ELSE [raised |-> "none",
               network |-> net,
               weights |-> NdArray(net.edge_properties[w.s])]
    ELSE [raised |-> "none", network |-> net, weights |-> w]

\* Line 203: anything but None and an ndarray is refused.
WeightsTypeRefused(w) == w # None /\ w.type \notin {"ndarray"}

\* The whole of prepare_data: what it raised and the attributes it leaves.
WeightedPrepare(net, w, nbins, oldbins, oldgroups) ==
    LET newlines == CollectLines(net.edge_data)
        resolved == ResolveWeights(w, net)
        cut == PdCut(resolved.weights, nbins)
        failed(err) == [raised |-> err, network |-> resolved.network,
                        lines |-> newlines, bins |-> oldbins,
                        line_groups |-> oldgroups]
    IN  IF resolved.raised # "none" THEN failed(resolved.raised)
        ELSE IF WeightsTypeRefused(resolved.weights) THEN failed("InvalidWeightsType")
        ELSE IF ~cut.ok THEN failed("CutError")
        ELSE [raised |-> "none", network |-> resolved.network,
              lines |-> newlines, bins |-> cut.bins, line_groups |-> cut.groups]

WeightedPrepareData ==
    /\ strategy = "weighted"
    /\ calls < MaxCalls
    /\ \E r \in {WeightedPrepare(network, weights, k, bins, line_groups)} :
           /\ network' = r.network
           /\ lines' = r.lines
           /\ bins' = r.bins
           /\ line_groups' = r.line_groups
           /\ raised' = r.raised
           /\ calls' = IF r.raised = "none" THEN calls + 1 ELSE calls
    /\ op' = "prepare_data"
    /\ ax' = <<>>
    /\ results' = None
    /\ UNCHANGED <<params, community_links, colored_curves>>

\* sns.dark_palette(color, n_colors): n_colors samples of the ramp from the
\* dark end (at 0) to the given color (at 1).
DarkPalette(color, n) ==
    LET at == Linspace(RatInt(0), RatInt(1), n)
    IN  [j \in 1..n |-> [palette |-> "dark", base |-> color, at |-> at[j]]]

\* sns.color_palette(name, n_colors): a colormap sampled at the n_colors inner
\* points of linspace(0, 1, n_colors + 2).
ColorPalette(name, n) ==
    [j \in 1..n |-> [palette |-> name, base |-> name, at |-> Rat(j, n + 1)]]

\* Variant: the dark ramp is used as seaborn returns it.
EdgeColorsUnreversed(palette, color, n) ==
    IF palette = None THEN DarkPalette(color, n)
    ELSE ColorPalette(palette.s, n)

\* Lines 233-242.
EdgeColors(palette, color, n) ==
    IF palette = None THEN Reversed(DarkPalette(color, n))
    ELSE ColorPalette(palette.s, n)

\* self.lines[self.line_groups == i]: the lines under a boolean mask.
RECURSIVE MaskSelect(_, _, _, _)
MaskSelect(ls, gs, i, n) ==
    IF n = 0 THEN <<>>
    ELSE IF gs[n] = i THEN Append(MaskSelect(ls, gs, i, n - 1), ls[n])
    ELSE MaskSelect(ls, gs, i, n - 1)

\* Lines 244-255: one LineCollection per bin, in bin order.
WeightedBatches(ls, gs, colors, n) ==
    [b \in 1..n |->
        LineCollection(NdArray(MaskSelect(ls.a, gs.a, b - 1, Len(ls.a))), colors[b])]

Palettes == {None, PyStr("viridis")}
BaseColors == {"#a7a7a7"}

WeightedRender ==
    /\ strategy = "weighted"
    /\ \E palette \in Palettes, color \in BaseColors :
        IF line_groups = Absent
        THEN /\ raised' = "AttributeError"
             /\ UNCHANGED <<ax, results>>
        ELSE \E coll \in {WeightedBatches(lines, line_groups,
                                            EdgeColors(palette, color, k), k)} :
                 /\ raised' = "none"
                 /\ ax' = coll
                 /\ results' = coll
    /\ op' = "render"
    /\ UNCHANGED <<params, network, lines, bins, line_groups, community_links,
                   colored_curves, calls>>

\* ------------------------------------------------------- CommunityGradient
Communities == 1..2

\* Lines 308-315: every edge is added to the collection of its ordered pair
\* of endpoint communities, on top of what community_links already holds.
RECURSIVE CommunityAccumulate(_, _, _, _)
CommunityAccumulate(links, edges, comms, n) ==
    IF n = 0 THEN links
    ELSE LET before == CommunityAccumulate(links, edges, comms, n - 1)
             pair == <<comms[edges[n].index_pair[1]], comms[edges[n].index_pair[2]]>>
             touched == DefaultDictTouch(before, pair)
         IN  [j \in DOMAIN touched |->
                IF touched[j].key = pair
                THEN [touched[j] EXCEPT
                        !.value = AddCurve(@, edges[n].points.a, 1)]
                ELSE touched[j]]

CommunityPrepareData ==
    /\ strategy = "community"
    /\ calls < MaxCalls
    /\ community_links' =
          CommunityAccumulate(community_links, data, node_communities, Len(data))
    /\ op' = "prepare_data"
    /\ raised' = "none"
    /\ calls' = calls + 1
    /\ ax' = <<>>
    /\ results' = None
    /\ UNCHANGED <<params, network, lines, bins, line_groups, colored_curves>>

\* Lines 334-341: community id -> color of a palette of len(community_ids).
CommunityColor(ids, palette, c) ==
    ColorPalette(palette, Len(ids))[CHOOSE j \in DOMAIN ids : ids[j] = c]

\* Variant: the loop runs over every pair of community ids and indexes the
\* defaultdict with it.
RECURSIVE TouchAll(_, _)
TouchAll(links, pairs) ==
    IF pairs = <<>> THEN links
    ELSE TouchAll(DefaultDictTouch(links, Head(pairs)), Tail(pairs))

CommunityColoredAllPairs(links, ids, palette) ==
    LET all == TouchAll(links, [j \in 1..(Len(ids) * Len(ids)) |->
                    <<ids[((j - 1) \div Len(ids)) + 1], ids[((j - 1) % Len(ids)) + 1]>>])
    IN  [j \in DOMAIN all |->
            [all[j] EXCEPT
                !.value = SetColors(@, CommunityColor(ids, palette, all[j].key[1]),
                                       CommunityColor(ids, palette, all[j].key[2]))]]

\* Lines 343-347: each pair's collection gets its two colors and is drawn.
CommunityColored(links, ids, palette) ==
    [j \in DOMAIN links |->
        [links[j] EXCEPT
            !.value = SetColors(@, CommunityColor(ids, palette, links[j].key[1]),
                                   CommunityColor(ids, palette, links[j].key[2]))]]

CommunityPalettes == {"plasma", "husl"}

CommunityRender ==
    /\ strategy = "community"
    /\ \E palette \in CommunityPalettes :
        /\ community_links' = CommunityColored(community_links, community_ids, palette)
        /\ ax' = [j \in DOMAIN community_links' |->
                    RenderCurves(community_links'[j].value)]
    /\ results' = None
    /\ op' = "render"
    /\ raised' = "none"
    /\ UNCHANGED <<params, network, lines, bins, line_groups, colored_curves, calls>>

\* -------------------------------------------------------------- ODGradient
\* Lines 394-399: source * (1 - t) + target * t for every t.
Interpolate(src, tgt, interp) ==
    [j \in DOMAIN interp |->
        <<RatAdd(RatMul(src[1], RatSub(RatInt(1), interp[j])), RatMul(tgt[1], interp[j])),
          RatAdd(RatMul(src[2], RatSub(RatInt(1), interp[j])), RatMul(tgt[2], interp[j]))>>]

\* Lines 393-408: which geometry is resampled.  type(points) is "list" or
\* "ndarray"; line 400 compares it with np.array, the function, which is the
\* type of no value.
ODPoints(edge, interp) ==
    IF edge.points.type = "list" /\ Len(edge.points.a) = 2
    THEN Interpolate(edge.source, edge.target, interp)
    ELSE IF edge.points.type = "np.array" /\ Len(edge.points.a) = 2
    THEN Interpolate(edge.source, edge.target, interp)
    ELSE edge.points.a

\* Lines 390-411: every edge adds one curve to the shared collection.
RECURSIVE ODAccumulate(_, _, _, _)
ODAccumulate(coll, edges, num, n) ==
    IF n = 0 THEN coll
    ELSE AddCurve(ODAccumulate(coll, edges, num, n - 1),
                  ODPoints(edges[n], Linspace(RatInt(0), RatInt(1), num)), 1)

ODPrepareData ==
    /\ strategy = "od"
    /\ calls < MaxCalls
    /\ colored_curves' = ODAccumulate(colored_curves, data, n_points, Len(data))
    /\ op' = "prepare_data"
    /\ raised' = "none"
    /\ calls' = calls + 1
    /\ ax' = <<>>
    /\ results' = None
    /\ UNCHANGED <<params, network, lines, bins, line_groups, community_links>>

ODColors == {<<PyStr("blue"), PyStr("red")>>, <<PyStr("green"), PyStr("black")>>}

ODRender ==
    /\ strategy = "od"
    /\ \E c \in ODColors :
        /\ colored_curves' = SetColors(colored_curves, c[1], c[2])
        /\ ax' = <<RenderCurves(colored_curves')>>
    /\ results' = None
    /\ op' = "render"
    /\ raised' = "none"
    /\ UNCHANGED <<params, network, lines, bins, line_groups, community_links, calls>>

\* ------------------------------------------------------------ construction
NoProps == [p \in {} |-> <<>>]
PlainNetworks ==
    {MakeNetwork([e \in DOMAIN pairs |-> MakeEdge(pairs[e][1], pairs[e][2], "list2")],
                 NoProps, <<>>) : pairs \in SeqsUpTo(Nodes \X Nodes, MaxEdges)}

\* Networks whose e-th edge runs from node 0 to node e, all straight.
StarEdges(n) == [e \in 1..n |-> MakeEdge(0, e, "list2")]
Countdown(n) == [e \in 1..n |-> n + 1 - e]
Countup(n) == [e \in 1..n |-> e]
\* Weight vectors, one weight per edge: positive ones, and ones of zero and
\* negative weights.
WeightValues == 1..4
LowValues == {0 - 2, 0 - 1, 0}
WeightArrays ==
    SeqsUpTo(WeightValues, MaxWeights) \cup SeqsUpTo(LowValues, MaxWeights)
StoredNetworks ==
    {MakeNetwork(StarEdges(n),
                 [p \in S |-> IF p = "weight" THEN Countup(n) ELSE Countdown(n)],
                 Countdown(n)) : n \in 0..MaxWeights, S \in SUBSET PropNames}
WeightRefs == {PyStr("weight"), PyStr("betweenness"), PyStr("flow")}

ODNetworks ==
    {MakeNetwork([e \in DOMAIN shapes |-> MakeEdge(0, 1, shapes[e])], NoProps, <<>>) :
        shapes \in SeqsUpTo(Shapes, MaxEdges)}

InitCommon ==
    /\ op = "init"
    /\ raised = "none"
    /\ calls = 0
    /\ ax = <<>>
    /\ results = None

\* PlainEdges(network)
InitPlain ==
    /\ strategy = "plain"
    /\ network \in PlainNetworks
    /\ k = None /\ weights = None /\ node_communities = None
    /\ community_ids = None /\ n_points = None
    /\ lines = None
    /\ bins = Absent /\ line_groups = Absent
    /\ community_links = Absent /\ colored_curves = Absent

\* WeightedEdges(network, weights, k)
InitWeighted ==
    /\ strategy = "weighted"
    /\ k \in 1..MaxK
    /\ \/ \E w \in WeightArrays :
            /\ network = MakeNetwork(StarEdges(Len(w)), NoProps, Countdown(Len(w)))
            /\ weights = NdArray(w)
       \/ /\ network \in StoredNetworks
          /\ weights \in WeightRefs \cup {None, PyList(Countup(Len(network.edge_data)))}
    /\ node_communities = None /\ community_ids = None /\ n_points = None
    /\ lines = None
    /\ bins = None
    /\ line_groups = Absent
    /\ community_links = Absent /\ colored_curves = Absent

\* CommunityGradient(network, node_communities)
InitCommunity ==
    /\ strategy = "community"
    /\ network \in PlainNetworks
    /\ node_communities \in [Nodes -> Communities]
    /\ community_ids = SortedSeq(Range(node_communities))
    /\ community_links = <<>>
    /\ k = None /\ weights = None /\ n_points = None
    /\ lines = Absent /\ bins = Absent /\ line_groups = Absent
    /\ colored_curves = Absent

\* ODGradient(network, n_points)
InitOD ==
    /\ strategy = "od"
    /\ network \in ODNetworks
    /\ n_points \in 1..MaxNPoints
    /\ colored_curves = NewCurveCollection
    /\ k = None /\ weights = None /\ node_communities = None
    /\ community_ids = None
    /\ lines = Absent /\ bins = Absent /\ line_groups = Absent
    /\ community_links = Absent

Init == InitCommon /\ (InitPlain \/ InitWeighted \/ InitCommunity \/ InitOD)

Next ==
    \/ PlainPrepareData
    \/ PlainRender
    \/ WeightedPrepareData
    \/ WeightedRender
    \/ CommunityPrepareData
    \/ CommunityRender
    \/ ODPrepareData
    \/ ODRender

Spec == Init /\ [][Next]_vars

\* ================================================================== claims
\* The weights prepare_data binned: the array given, or the named property.
ResolvedWeights ==
    IF weights.type = "str" THEN network.edge_properties[weights.s] ELSE weights.a

WeightedPrepared == strategy = "weighted" /\ calls >= 1
EdgeIds == 1..Len(data)
BinMembers(i) == {e \in EdgeIds : line_groups.a[e] = i}
BinLines(i) == Range(MaskSelect(lines.a, line_groups.a, i, Len(lines.a)))

\* C1: after WeightedEdges.prepare_data every edge has one bin index in
\* [0, k), the k+1 recorded bin boundaries are non-decreasing, and the
\* subsets render selects (lines whose group equals i, i in 0..k-1) are
\* pairwise disjoint and together are all the lines.
C1_BinsPartitionEdges ==
    WeightedPrepared =>
        /\ Len(line_groups.a) = Len(data)
        /\ \A e \in EdgeIds : line_groups.a[e] \in 0..(k - 1)
        /\ Len(bins.a) = k + 1
        /\ \A j \in 1..k : RatLeq(bins.a[j], bins.a[j + 1])
        /\ \A i, j \in 0..(k - 1) : i # j => BinLines(i) \cap BinLines(j) = {}
        /\ UNION {BinLines(i) : i \in 0..(k - 1)} = Range(lines.a)
        /\ \A i \in 0..(k - 1) :
              Len(MaskSelect(lines.a, line_groups.a, i, Len(lines.a)))
                 = Cardinality(BinMembers(i))
        /\ Cardinality(Range(lines.a)) = Len(data)

C1_Witness ==
    /\ WeightedPrepared
    /\ Len(data) = MaxWeights
    /\ k = MaxK
    /\ Cardinality(Range(line_groups.a)) >= 2
    /\ \E i \in 0..(k - 1) : BinMembers(i) = {}

\* ------------------------------------------------------------------- C8
WeightMin == SetMin(Range(ResolvedWeights))
WeightMax == SetMax(Range(ResolvedWeights))
\* k * (w - min) against i * (max - min): where w lies among the k equal
\* intervals of [min, max].
InInterval(w, i) ==
    /\ i * (WeightMax - WeightMin) <= k * (w - WeightMin)
    /\ k * (w - WeightMin) <= (i + 1) * (WeightMax - WeightMin)
EqualWidthBinning ==
    /\ \A e \in EdgeIds :
          /\ InInterval(ResolvedWeights[e], line_groups.a[e])
          /\ ResolvedWeights[e] = WeightMin => line_groups.a[e] = 0
          /\ ResolvedWeights[e] = WeightMax => line_groups.a[e] = k - 1
    /\ \A j \in 1..(k - 1) :
          bins.a[j + 1] = RatAdd(RatInt(WeightMin), Rat(j * (WeightMax - WeightMin), k))
    /\ (ResolvedWeights = <<1, 2, 3, 4>> /\ k = 2) =>
          /\ line_groups.a = <<0, 0, 1, 1>>
          /\ bins.a[2] = Rat(5, 2)

\* C8 as stated: prepare_data splits [min(weights), max(weights)] into k
\* intervals of width (max-min)/k and gives each edge the index of the
\* interval holding its weight, the minimum in bin 0 and the maximum in bin
\* k-1; weights [1,2,3,4] with k=2 give [0,0,1,1], inner boundary 2.5.
C8_Original == WeightedPrepared => EqualWidthBinning

\* C8 amended: the same, for weights that are not all equal.  (Equal weights
\* have max-min = 0; pandas then bins over a range widened by 0.1% on both
\* sides and the single value lands in a middle bin, not in bin k-1.)
C8_EqualWidthWhenSpread ==
    (WeightedPrepared /\ WeightMin < WeightMax) => EqualWidthBinning

C8_Witness ==
    /\ WeightedPrepared
    /\ ResolvedWeights = <<1, 2, 3, 4>>
    /\ k = 2
    /\ line_groups.a = <<0, 0, 1, 1>>

\* ------------------------------------------------------------------- C9
Rendered == op = "render" /\ raised = "none"
BatchesInBinOrder ==
    /\ Len(results) = k
    /\ \A b \in 1..k :
          /\ Len(results[b].segments) = Cardinality(BinMembers(b - 1))
          /\ Range(results[b].segments) = {lines.a[e] : e \in BinMembers(b - 1)}
    /\ ax = results
DefaultRamp == results[1].color.palette = "dark"

\* C9 as stated: render returns k batches in bin order, an empty bin giving
\* an empty batch, and the darkest color of the ramp is the one of bin 0.
C9_Original ==
    (strategy = "weighted" /\ Rendered) =>
        /\ BatchesInBinOrder
        /\ DefaultRamp => results[1].color.at = RatInt(0)

\* C9 amended: render returns k batches in bin order, an empty bin giving an
\* empty batch; with the default dark ramp the darkest color is the one of
\* bin k-1 (bin 0 when k = 1, the single color being the dark end), and for
\* k >= 2 bin 0 has the base (lightest) color and each next bin a darker one;
\* a named palette is applied in its own order.
C9_DarkestOnLastBin ==
    (strategy = "weighted" /\ Rendered) =>
        /\ BatchesInBinOrder
        /\ DefaultRamp =>
              /\ results[k].color.at = RatInt(0)
              /\ k = 1 => results[1].color.at = RatInt(0)
              /\ k >= 2 => results[1].color.at = RatInt(1)
              /\ \A b \in 1..(k - 1) :
                    RatLess(results[b + 1].color.at, results[b].color.at)
        /\ ~DefaultRamp =>
              \A b \in 1..(k - 1) :
                    RatLess(results[b].color.at, results[b + 1].color.at)

C9_Witness ==
    /\ strategy = "weighted" /\ Rendered
    /\ DefaultRamp
    /\ k = MaxK
    /\ results[1].color.at = RatInt(1)
    /\ \E b \in 1..k : results[b].segments = <<>>
    /\ \E b \in 1..k : Len(results[b].segments) >= 2

\* ------------------------------------------------------------------ C10
\* The prepared geometry and grouping: what render draws from.
CurvesOf(links) ==
    [j \in DOMAIN links |-> [key |-> links[j].key, curves |-> links[j].value.curves]]
PreparedGeometry ==
    IF strategy = "community" THEN CurvesOf(community_links)
    ELSE IF strategy = "od" THEN colored_curves.curves
    ELSE <<lines, bins, line_groups>>

\* C10: a render call, whatever its style options, leaves the prepared
\* geometry and grouping as they were: lines, bins and line_groups; the keys
\* of community_links and each group's curves; the shared collection's curves.
C10_RenderKeepsPrepared ==
    [][op' = "render" => PreparedGeometry' = PreparedGeometry]_vars

C10_Witness ==
    /\ strategy = "community"
    /\ op = "render"
    /\ calls >= 1
    /\ Len(community_links) >= 2
    /\ Len(community_ids) = 2
    /\ Len(community_links) < 4
    /\ \A j \in DOMAIN community_links : community_links[j].value.source # None

\* ------------------------------------------------------------------- C4
MissingName ==
    /\ strategy = "weighted"
    /\ weights.type = "str"
    /\ weights.s \notin DOMAIN network.edge_properties

\* C4: prepare_data with a weights name that is no edge property raises the
\* reference error exactly when the name is not "betweenness"; for
\* "betweenness" the computation runs first and the weights binned are those
\* of the computed property.
C4_OnlyBetweennessFallsBack ==
    [][(MissingName /\ op' = "prepare_data") =>
          /\ (raised' = "InvalidWeightsReference") <=> (weights.s # "betweenness")
          /\ weights.s = "betweenness" =>
                /\ network'.estimated
                /\ "betweenness" \in DOMAIN network'.edge_properties
                /\ network'.edge_properties["betweenness"] = network.centrality
                /\ raised' = "none" =>
                      line_groups' =
                        PdCut(NdArray(network'.edge_properties["betweenness"]), k).groups
          /\ weights.s # "betweenness" => network' = network]_vars

C4_Witness ==
    /\ strategy = "weighted"
    /\ weights = PyStr("betweenness")
    /\ network.estimated
    /\ op = "prepare_data"
    /\ raised = "none"
    /\ calls = 1
    /\ Cardinality(Range(line_groups.a)) >= 2

\* ------------------------------------------------------------------- C2
\* What one prepare_data call on the freshly constructed instance leaves.
SinglePrepare ==
    IF strategy = "community"
    THEN CurvesOf(CommunityAccumulate(<<>>, data, node_communities, Len(data)))
    ELSE IF strategy = "od"
    THEN ODAccumulate(NewCurveCollection, data, n_points, Len(data)).curves
    ELSE IF strategy = "plain"
    THEN <<CollectLines(data), Absent, Absent>>
    ELSE LET cut == PdCut(NdArray(ResolvedWeights), k)
         IN  <<CollectLines(data), cut.bins, cut.groups>>

\* C2: prepare_data rebuilds the derived state: after any number n >= 1 of
\* prepare_data calls on the same instance and network the derived state is
\* the one a single call leaves.
C2_PrepareRebuilds == calls >= 1 => PreparedGeometry = SinglePrepare

\* ------------------------------------------------------------------- C3
\* C3: a WeightedEdges.prepare_data call that raises a validation error
\* (unknown property name, weights that are no array) leaves lines, bins
\* and line_groups as they were before the call.
C3_NoPartialState ==
    [][(strategy = "weighted" /\ op' = "prepare_data"
          /\ raised' \in {"InvalidWeightsReference", "InvalidWeightsType"})
        => <<lines, bins, line_groups>>' = <<lines, bins, line_groups>>]_vars

\* ------------------------------------------------------------------- C5
CommunityPair(e) ==
    <<node_communities[data[e].index_pair[1]], node_communities[data[e].index_pair[2]]>>

\* C5: after CommunityGradient.prepare_data the keys of community_links are
\* the ordered community pairs present among the edges, (A,B) apart from
\* (B,A), and each key holds as many curves as there are edges of that pair.
C5_PairCounts ==
    (strategy = "community" /\ calls >= 1) =>
        /\ DictKeys(community_links) = {CommunityPair(e) : e \in EdgeIds}
        /\ \A key \in DictKeys(community_links) :
              Len(DictGet(community_links, key).curves)
                 = Cardinality({e \in EdgeIds : CommunityPair(e) = key})

\* ------------------------------------------------------------------- C6
\* C6: for every edge whose geometry is a 2-point segment, held as a list or
\* as an array, the curve ODGradient.prepare_data adds is the n_points evenly
\* spaced points interpolated from the source to the target coordinate.
C6_SegmentsResampled ==
    (strategy = "od" /\ calls >= 1) =>
        \A e \in EdgeIds :
            Len(data[e].points.a) = 2 =>
                colored_curves.curves[e].points =
                    Interpolate(data[e].source, data[e].target,
                                Linspace(RatInt(0), RatInt(1), n_points))

\* ------------------------------------------------------------------- C7
RECURSIVE SumLen(_, _)
SumLen(links, n) ==
    IF n = 0 THEN 0 ELSE SumLen(links, n - 1) + Len(links[n].value.curves)

PreparedCount ==
    IF strategy = "community" THEN SumLen(community_links, Len(community_links))
    ELSE IF strategy = "od" THEN Len(colored_curves.curves)
    ELSE Len(lines.a)

\* C7: whenever a prepare_data call has completed, the strategy holds as many
\* prepared line geometries as the network has edges.
C7_OneLinePerEdge == calls >= 1 => PreparedCount = Len(data)

====
